---- MODULE Spec2Model ----
(***************************************************************************)
(* PEER Data Portal: the session Dataset Store and the filter / aggregate  *)
(* pipeline of the two Streamlit scripts of the repository,                *)
(*   src/peer_portal.py  (autoload, optional filters, per-indicator charts)*)
(*   src/peer-portal.py  (upload only, filters default to "all").          *)
(* One behaviour is one browser session of one of the two scripts: a       *)
(* sequence of script re-evaluations, each walking the script top to       *)
(* bottom.                                                                 *)
(***************************************************************************)
EXTENDS Integers, Sequences, FiniteSets, TLC

VARIABLES
  script,      \* which of the two scripts the session runs
  dataDir,     \* what glob("data/*") returns (peer_portal.py line 21)
  store,       \* st.session_state.store: theme key -> DataFrame
  pc,          \* position of the current re-evaluation in the script
  startedEmpty,\* whether the store was empty when this re-evaluation began
  uploads,     \* the files of the file_uploader handed to "Add to portal"
  i,           \* loop index of the running ingest loop
  df0,         \* the frame of the batch the ingest loop handled last
  read0,       \* history: that frame as the reader returned it
  reports,     \* st.warning / st.error reports of this re-evaluation
  ingestLog,   \* history: every batch merged into the store, in order
  presses,     \* history: "Add to portal" presses with files so far
  theme, regions, incomes, countries,   \* widget values
  sel_inds, stat, group, chart_type,    \* widget values
  data,        \* the filtered, projected table (displayed and exported)
  plot_df,     \* the table built for plotting
  k,           \* loop index of the per-indicator chart loop
  df_ind       \* the per-indicator frame handed to the chart call

vars == <<script, dataDir, store, pc, startedEmpty, uploads, i, df0, read0,
          reports, ingestLog, presses, theme, regions, incomes, countries, sel_inds, stat,
          group, chart_type, data, plot_df, k, df_ind>>

(***************************************************************************)
(* Bounds of the model.                                                    *)
(***************************************************************************)
MaxPresses == 1   \* "Add to portal" presses with files, per session
MaxSel == 2       \* indicators picked in the indicator multiselect
MaxPick == 2      \* countries picked in the country multiselect

(***************************************************************************)
(* Cell values.  A cell is missing (NaN / None), a number (kept as a       *)
(* reduced fraction, since means and medians are not integers) or text.    *)
(***************************************************************************)
NA == [t |-> "na", n |-> 0, d |-> 1, s |-> ""]
Str(x) == [t |-> "str", n |-> 0, d |-> 1, s |-> x]

RECURSIVE Gcd(_, _)
Gcd(a, b) == IF b = 0 THEN a ELSE Gcd(b, a % b)

Rat(p, q) == LET g == Gcd(p, q)
             IN  [t |-> "num", n |-> p \div g, d |-> q \div g, s |-> ""]
Num(x) == [t |-> "num", n |-> x, d |-> 1, s |-> ""]

IsNA(v) == v.t = "na"
IsNum(v) == v.t = "num"
\* a < b on numbers
NumLess(a, b) == a.n * b.d < b.n * a.d

(***************************************************************************)
(* Sequence helpers.                                                       *)
(***************************************************************************)
Range(sq) == {sq[j] : j \in DOMAIN sq}
Contains(sq, x) == \E j \in DOMAIN sq : sq[j] = x

RECURSIVE Flatten(_)
Flatten(ss) == IF ss = <<>> THEN <<>> ELSE Head(ss) \o Flatten(Tail(ss))

\* the values of sq in order of first appearance (Series.unique)
RECURSIVE Unique(_)
Unique(sq) ==
  IF sq = <<>> THEN <<>>
  ELSE LET r == Unique(SubSeq(sq, 1, Len(sq) - 1))
           x == sq[Len(sq)]
       IN  IF Contains(r, x) THEN r ELSE Append(r, x)

(***************************************************************************)
(* DataFrames: an ordered list of column names and an ordered list of      *)
(* rows, each row a function from the column names to cells.               *)
(***************************************************************************)
EmptyFrame == [cols |-> <<>>, rows |-> <<>>]
Frame(cols, rows) == [cols |-> cols, rows |-> rows]
HasCol(df, c) == Contains(df.cols, c)
Column(df, c) == [j \in DOMAIN df.rows |-> df.rows[j][c]]
IsEmpty(df) == df.rows = <<>> \/ df.cols = <<>>

Reserved == <<"Country", "Region", "Income">>
NonIndicator == {"Theme", "Country", "Region", "Income"}

\* a row widened to the columns cs, missing where it has no such column
Widen(row, cs) ==
  [c \in Range(cs) |-> IF c \in DOMAIN row THEN row[c] ELSE NA]

\* df[cols]: the columns cs of df, in the order of cs
Project(df, cs) ==
  Frame(cs, [j \in DOMAIN df.rows |-> [c \in Range(cs) |-> df.rows[j][c]]])

\* df[mask]: the rows whose index is in the mask, in order
RECURSIVE Masked(_, _, _)
Masked(rows, mask, j) ==
  IF j > Len(rows) THEN <<>>
  ELSE (IF j \in mask THEN <<rows[j]>> ELSE <<>>) \o Masked(rows, mask, j + 1)

SelectRows(df, mask) == Frame(df.cols, Masked(df.rows, mask, 1))

\* df[c] = cells, one cell per row (adds the column when it is new)
SetColumn(df, c, cells) ==
  LET cs == IF HasCol(df, c) THEN df.cols ELSE Append(df.cols, c)
  IN  Frame(cs, [j \in DOMAIN df.rows |->
                   [x \in Range(cs) |-> IF x = c THEN cells[j]
                                        ELSE df.rows[j][x]]])

\* pd.concat([a, b], ignore_index=True): the rows of a, then the rows of b,
\* over the union of the columns (a's first, then b's new ones); a cell of
\* a column the row's frame lacked is missing.
Concat(a, b) ==
  LET cs == a.cols \o SelectSeq(b.cols, LAMBDA c : ~HasCol(a, c))
  IN  Frame(cs, [j \in DOMAIN a.rows |-> Widen(a.rows[j], cs)]
                \o [j \in DOMAIN b.rows |-> Widen(b.rows[j], cs)])

(***************************************************************************)
(* The files of the model.  Every file carries Country, Region and Income; *)
(* Theme cells are text or missing.                                        *)
(*   edu.csv     Theme Edu, numeric indicator enrol with a 999 sentinel    *)
(*   edu2.csv    Theme Edu (one row without a theme), Yes/No indicator     *)
(*   gov.csv     Theme Gov, text indicator holding "Yes" and "Maybe"       *)
(*   fin.csv     no Theme column; text indicator, one cell a number        *)
(*   broken.xlsx not a readable workbook                                   *)
(***************************************************************************)
EduRow(co, re, inc, v) ==
  [Theme |-> Str("Edu"), Country |-> Str(co), Region |-> Str(re),
   Income |-> Str(inc), enrol |-> v]

Edu2Row(th, co, re, inc, v) ==
  [Theme |-> th, Country |-> Str(co), Region |-> Str(re),
   Income |-> Str(inc), free |-> v]

GovRow(co, re, inc, v) ==
  [Theme |-> Str("Gov"), Country |-> Str(co), Region |-> Str(re),
   Income |-> Str(inc), tier |-> v]

FinRow(co, re, inc, v) ==
  [Country |-> Str(co), Region |-> Str(re), Income |-> Str(inc), budget |-> v]

FileNames == {"edu.csv", "edu2.csv", "gov.csv", "fin.csv", "broken.xlsx"}

\* the table a file holds when it is read with the reader of its format
Content(name) ==
  CASE name = "edu.csv" ->
         Frame(<<"Theme", "Country", "Region", "Income", "enrol">>,
               << EduRow("Kenya", "Africa", "Low", Num(1)),
                  EduRow("Chad", "Africa", "Low", Num(3)),
                  EduRow("Mali", "Africa", "High", Num(999)) >>)
    [] name = "edu2.csv" ->
         Frame(<<"Theme", "Country", "Region", "Income", "free">>,
               << Edu2Row(Str("Edu"), "Kenya", "Africa", "Low", Str("Yes")),
                  Edu2Row(Str("Edu"), "Chad", "Africa", "Low", Str("No")),
                  Edu2Row(NA, "Mali", "Africa", "High", NA) >>)
    [] name = "gov.csv" ->
         Frame(<<"Theme", "Country", "Region", "Income", "tier">>,
               << GovRow("Kenya", "Africa", "Low", Str("Yes")),
                  GovRow("Peru", "Americas", "Low", Str("Maybe")) >>)
    [] name = "fin.csv" ->
         Frame(<<"Country", "Region", "Income", "budget">>,
               << FinRow("Kenya", "Africa", "Low", Str("4")),
                  FinRow("Chad", "Africa", "Low", Str("unknown")) >>)
    [] OTHER -> EmptyFrame

WellFormed(name) == name # "broken.xlsx"
IsXlsxName(name) == name = "broken.xlsx"            \* name.endswith(".xlsx")
Format(name) == IF IsXlsxName(name) THEN "excel" ELSE "csv"
\* the MIME type the browser reports for the upload (UploadedFile.type)
MimeType(name) ==
  IF IsXlsxName(name)
  THEN "application/vnd.openxmlformats-officedocument.spreadsheetml.sheet"
  ELSE "text/csv"
MimeEndsWithExcel(m) == m = "application/vnd.ms-excel"   \* type.endswith("excel")
\* name.rsplit(".", 1)[0]
Stem(name) ==
  CASE name = "edu.csv" -> "edu"
    [] name = "edu2.csv" -> "edu2"
    [] name = "gov.csv" -> "gov"
    [] name = "fin.csv" -> "fin"
    [] name = "broken.xlsx" -> "broken"

\* pd.read_excel / pd.read_csv raise unless the file is a well-formed file
\* of the reader's format
Readable(name, reader) == WellFormed(name) /\ reader = Format(name)

\* peer_portal.py: the reader follows the file name
ReaderByName(name) == IF IsXlsxName(name) THEN "excel" ELSE "csv"
\* peer-portal.py: the reader follows the MIME type
ReaderByMime(name) == IF MimeEndsWithExcel(MimeType(name)) THEN "excel" ELSE "csv"

(***************************************************************************)
(* Boolean normalization (Yes/No -> 1/0).                                  *)
(***************************************************************************)
\* df[col].dropna().isin(["Yes", "No"]).all()
AllYesNo(df, c) ==
  \A j \in DOMAIN df.rows :
     LET v == df.rows[j][c]
     IN  IsNA(v) \/ (v.t = "str" /\ v.s \in {"Yes", "No"})

\* Series.map({"Yes": 1, "No": 0}): a value that is no key maps to missing
MapYesNo(v) ==
  IF v.t = "str" /\ v.s = "Yes" THEN Num(1)
  ELSE IF v.t = "str" /\ v.s = "No" THEN Num(0)
  ELSE NA

\* the map applied to every column, whatever it holds
RecodeAlways(df) ==
  Frame(df.cols, [j \in DOMAIN df.rows |->
                    [c \in Range(df.cols) |-> MapYesNo(df.rows[j][c])]])

\* for col in df.columns: if <all Yes/No>: df[col] = df[col].map(...)
Recode(df) ==
  LET yn == {c \in Range(df.cols) : AllYesNo(df, c)}
  IN  Frame(df.cols, [j \in DOMAIN df.rows |->
                        [c \in Range(df.cols) |->
                           IF c \in yn THEN MapYesNo(df.rows[j][c])
                           ELSE df.rows[j][c]]])

\* if "Theme" not in df.columns: df["Theme"] = <file stem>
EnsureTheme(df, name) ==
  IF HasCol(df, "Theme") THEN df
  ELSE SetColumn(df, "Theme", [j \in DOMAIN df.rows |-> Str(Stem(name))])

(***************************************************************************)
(* Merging a batch into the store, theme by theme.                         *)
(***************************************************************************)
\* str(raw) of a Theme cell: text is itself, a missing cell prints as "nan"
StrOf(raw) == IF IsNA(raw) THEN Str("nan") ELSE raw

\* the store key of a Theme cell: peer_portal.py keys by str(raw),
\* peer-portal.py by the raw cell
KeyOf(sc, raw) == IF sc = "peer_portal.py" THEN StrOf(raw) ELSE raw

\* store.get(key, pd.DataFrame())
Get(st, key) == IF key \in DOMAIN st THEN st[key] ELSE EmptyFrame

\* df[df["Theme"] == raw]: a missing cell equals nothing, itself included
ThemePart(df, raw) ==
  SelectRows(df, {j \in DOMAIN df.rows :
                    /\ ~IsNA(raw)
                    /\ ~IsNA(df.rows[j]["Theme"])
                    /\ df.rows[j]["Theme"] = raw})

Put(st, key, df) ==
  [x \in DOMAIN st \cup {key} |-> IF x = key THEN df ELSE st[x]]

\* the theme's dataset replaced by the batch's part instead of extended
MergeThemeReplacing(st, df, raw, sc) ==
  Put(st, KeyOf(sc, raw), ThemePart(df, raw))

\* store[theme] = pd.concat([store.get(theme, pd.DataFrame()), part])
MergeTheme(st, df, raw, sc) ==
  Put(st, KeyOf(sc, raw), Concat(Get(st, KeyOf(sc, raw)), ThemePart(df, raw)))

\* for raw in df["Theme"].unique(): ...
RECURSIVE MergeThemes(_, _, _, _)
MergeThemes(st, df, raws, sc) ==
  IF raws = <<>> THEN st
  ELSE MergeThemes(MergeTheme(st, df, Head(raws), sc), df, Tail(raws), sc)

MergeBatch(st, df, sc) ==
  MergeThemes(st, df, Unique(Column(df, "Theme")), sc)

EmptyStore == [x \in {} |-> EmptyFrame]

(***************************************************************************)
(* Widget options and filtering.                                           *)
(***************************************************************************)
\* df[c].dropna().unique()
Options(df, c) == {df.rows[j][c] : j \in DOMAIN df.rows} \ {NA}

\* indicator columns: every column that is no reserved column
IndicatorsOf(df) == SelectSeq(df.cols, LAMBDA c : c \notin NonIndicator)

\* Series.isin(values): a missing cell is in no selection
IsIn(v, sel) == ~IsNA(v) /\ v \in sel

\* the Income selection left out of the mask
MaskIgnoringIncome(r, rs, is, cs) ==
  /\ (rs # {} => IsIn(r["Region"], rs))
  /\ (cs # {} => IsIn(r["Country"], cs))

\* peer_portal.py lines 105-111: an empty selection leaves the mask alone
MaskOptional(r, rs, is, cs) ==
  /\ (rs # {} => IsIn(r["Region"], rs))
  /\ (is # {} => IsIn(r["Income"], is))
  /\ (cs # {} => IsIn(r["Country"], cs))

\* peer-portal.py lines 66-68: Region and Income always constrain
MaskRequired(r, rs, is, cs) ==
  /\ IsIn(r["Region"], rs)
  /\ IsIn(r["Income"], is)
  /\ (cs # {} => IsIn(r["Country"], cs))

\* peer_portal.py lines 112-113: the facets, then every indicator column
TableAll(df, rs, is, cs) ==
  Project(SelectRows(df, {j \in DOMAIN df.rows : MaskOptional(df.rows[j], rs, is, cs)}),
          Reserved \o IndicatorsOf(df))

\* peer-portal.py line 69: the facets, then the selected indicators
TableSelected(df, rs, is, cs, inds) ==
  Project(SelectRows(df, {j \in DOMAIN df.rows : MaskRequired(df.rows[j], rs, is, cs)}),
          Reserved \o inds)

(***************************************************************************)
(* Numeric coercion, sentinel recoding.                                    *)
(***************************************************************************)
Sentinel == 999

\* the number a text cell parses to, missing when it is no number
ParseNumber(x) == IF x = "4" THEN Num(4) ELSE NA

\* pd.to_numeric(..., errors="coerce") on one cell
ToNumeric(v) == IF v.t = "str" THEN ParseNumber(v.s) ELSE v

\* for c in sel_inds: data[c] = pd.to_numeric(data[c], errors="coerce")
RECURSIVE CoerceAll(_, _)
CoerceAll(df, cs) ==
  IF cs = <<>> THEN df
  ELSE CoerceAll(SetColumn(df, Head(cs),
                           [j \in DOMAIN df.rows |-> ToNumeric(df.rows[j][Head(cs)])]),
                 Tail(cs))

\* Series.replace(999, np.nan) on one cell
ReplaceSentinel(v) == IF IsNum(v) /\ v.n = Sentinel /\ v.d = 1 THEN NA ELSE v

\* df.dropna(subset=[c])
DropNA(df, c) == SelectRows(df, {j \in DOMAIN df.rows : ~IsNA(df.rows[j][c])})

(***************************************************************************)
(* Grouped mean / median.                                                  *)
(***************************************************************************)
\* the lexicographic order of the names of the model
NameOrder == <<"Africa", "Americas", "Chad", "High", "Kenya", "Low", "Mali",
               "Peru">>

\* the group keys in ascending order; rows with a missing key form no group
GroupKeys(df, g) ==
  SelectSeq([j \in DOMAIN NameOrder |-> Str(NameOrder[j])],
            LAMBDA key : key \in Options(df, g))

\* the non-missing cells of column c in the rows of group key
GroupValues(df, g, key, c) ==
  LET rs == SelectSeq(df.rows, LAMBDA r : r[g] = key /\ ~IsNA(r[c]))
  IN  [j \in DOMAIN rs |-> rs[j][c]]

AddNum(a, b) == Rat(a.n * b.d + b.n * a.d, a.d * b.d)

RECURSIVE SumOf(_)
SumOf(vs) == IF vs = <<>> THEN Num(0) ELSE AddNum(Head(vs), SumOf(Tail(vs)))

\* insertion of x into the ascending sequence vs
RECURSIVE Insert(_, _)
Insert(x, vs) ==
  IF vs = <<>> THEN <<x>>
  ELSE IF NumLess(Head(vs), x) THEN <<Head(vs)>> \o Insert(x, Tail(vs))
  ELSE <<x>> \o vs

RECURSIVE Sorted(_)
Sorted(vs) == IF vs = <<>> THEN <<>> ELSE Insert(Head(vs), Sorted(Tail(vs)))

\* mean over the non-missing values; missing for none
MeanOf(vs) ==
  IF vs = <<>> THEN NA
  ELSE LET t == SumOf(vs) IN Rat(t.n, t.d * Len(vs))

\* median over the non-missing values: the middle one, or the average of
\* the two middle ones; missing for none
MedianOf(vs) ==
  IF vs = <<>> THEN NA
  ELSE LET sv == Sorted(vs)
           m  == Len(sv) \div 2
       IN  IF Len(sv) % 2 = 1 THEN sv[m + 1]
           ELSE LET t == AddNum(sv[m], sv[m + 1]) IN Rat(t.n, t.d * 2)

\* the lower of the two middle values instead of their average
MedianLow(vs) ==
  IF vs = <<>> THEN NA ELSE Sorted(vs)[(Len(vs) + 1) \div 2]

AggCellLowMedian(vs, st) == IF st = "Mean" THEN MeanOf(vs) ELSE MedianLow(vs)

\* func = np.mean if stat == "Mean" else np.median, applied to one group
AggCell(vs, st) == IF st = "Mean" THEN MeanOf(vs) ELSE MedianOf(vs)

\* df.groupby(g, as_index=False)[cs].agg(func): one row per group key, in
\* ascending key order, holding the key and the aggregate of each column
GroupAgg(df, g, cs, st) ==
  LET keys == GroupKeys(df, g)
  IN  Frame(<<g>> \o cs,
            [j \in DOMAIN keys |->
               [c \in {g} \cup Range(cs) |->
                  IF c = g THEN keys[j]
                  ELSE AggCell(GroupValues(df, g, keys[j], c), st)]])

\* mean / median of a group holding text raises TypeError (peer-portal.py
\* aggregates without numeric coercion)
AggRaises(df, g, cs) ==
  \E j \in DOMAIN df.rows : \E c \in Range(cs) :
     ~IsNA(df.rows[j][g]) /\ df.rows[j][c].t = "str"

(***************************************************************************)
(* Helper columns of the map charts.                                       *)
(***************************************************************************)
\* pycountry.countries.lookup(name).alpha_3, None when the lookup fails
Iso3(v) ==
  CASE v = Str("Kenya") -> Str("KEN")
    [] v = Str("Chad") -> Str("TCD")
    [] v = Str("Mali") -> Str("MLI")
    [] v = Str("Peru") -> Str("PER")
    [] OTHER -> NA

\* Series.astype(str) on a numeric cell: the text of the number
AsText(v) == [v EXCEPT !.t = "str"]

(***************************************************************************)
(* The inputs of a session.                                                *)
(***************************************************************************)
Scripts == {"peer_portal.py", "peer-portal.py"}

\* what glob finds under data/ (peer_portal.py)
DataDirs == { <<"broken.xlsx">>,
              <<"edu.csv", "broken.xlsx", "edu2.csv">> }

\* what the user drops into the uploader before pressing "Add to portal"
UploadLists == { <<"edu2.csv", "broken.xlsx", "edu.csv">>,
                 <<"edu.csv", "gov.csv", "fin.csv">> }

Stats == {"Mean", "Median"}
Groups == {"None", "Country", "Region", "Income"}
ChartTypes == {"Bar", "Line", "Scatter", "Radar", "Funnel", "Map"}
AggCharts == {"Bar", "Radar", "Funnel", "Map"}
MapCategories == 10

\* the selections a multiselect over the options cs can return, as the
\* sequence of picks, at most n long
Picks(cs, n) ==
  {sq \in UNION {[1..m -> Range(cs)] : m \in 0..n} :
     \A a, b \in DOMAIN sq : a # b => sq[a] # sq[b]}

SmallSubsets(S, n) == {T \in SUBSET S : Cardinality(T) <= n}

Report(kind, name) == [kind |-> kind, file |-> name]
Logged(name, via) == [file |-> name, via |-> via]

(***************************************************************************)
(* Initial state: a new session, st.session_state holds no store yet and   *)
(* lines 15-17 create it empty.                                            *)
(***************************************************************************)
ViewReset ==
  /\ theme' = NA
  /\ regions' = {}
  /\ incomes' = {}
  /\ countries' = {}
  /\ sel_inds' = <<>>
  /\ stat' = "Mean"
  /\ group' = "None"
  /\ chart_type' = "Bar"
  /\ data' = EmptyFrame
  /\ plot_df' = EmptyFrame
  /\ k' = 0
  /\ df_ind' = EmptyFrame

Init ==
  /\ script \in Scripts
  /\ dataDir \in (IF script = "peer_portal.py" THEN DataDirs ELSE {<<>>})
  /\ store = EmptyStore
  /\ pc = "idle"
  /\ startedEmpty = TRUE
  /\ uploads = <<>>
  /\ i = 0
  /\ df0 = EmptyFrame
  /\ read0 = EmptyFrame
  /\ reports = <<>>
  /\ ingestLog = <<>>
  /\ presses = 0
  /\ theme = NA
  /\ regions = {}
  /\ incomes = {}
  /\ countries = {}
  /\ sel_inds = <<>>
  /\ stat = "Mean"
  /\ group = "None"
  /\ chart_type = "Bar"
  /\ data = EmptyFrame
  /\ plot_df = EmptyFrame
  /\ k = 0
  /\ df_ind = EmptyFrame

viewVars == <<theme, regions, incomes, countries, sel_inds, stat, group,
              chart_type, data, plot_df, k, df_ind>>
ingestVars == <<store, df0, read0, reports, ingestLog>>

(***************************************************************************)
(* A re-evaluation starts: any interaction reruns the script from the top. *)
(* peer_portal.py lines 15-17 and 47: autoload only into an empty store.   *)
(***************************************************************************)
\* autoload without the guard of line 47
AutoloadAlways == script = "peer_portal.py"

\* if not st.session_state.store: autoload()
AutoloadDue == script = "peer_portal.py" /\ DOMAIN store = {}

Rerun ==
  /\ pc = "idle"
  /\ startedEmpty' = (DOMAIN store = {})
  /\ uploads' = <<>>
  /\ df0' = EmptyFrame
  /\ read0' = EmptyFrame
  /\ reports' = <<>>
  /\ i' = 1
  /\ pc' = IF AutoloadDue /\ dataDir # <<>> THEN "autoload" ELSE "sidebar"
  /\ ViewReset
  /\ UNCHANGED <<script, dataDir, store, ingestLog, presses>>

(***************************************************************************)
(* One iteration of an ingest loop of peer_portal.py (autoload lines       *)
(* 22-45, upload lines 58-79): read, recode, ensure Theme, merge.          *)
(***************************************************************************)
IngestGuarded(name, via, kind) ==
  IF Readable(name, ReaderByName(name))
  THEN /\ read0' = Content(name)
       /\ df0' = EnsureTheme(Recode(Content(name)), name)
       /\ store' = MergeBatch(store, df0', script)
       /\ ingestLog' = Append(ingestLog, Logged(name, via))
       /\ UNCHANGED reports
  ELSE /\ reports' = Append(reports, Report(kind, name))
       /\ UNCHANGED <<store, df0, read0, ingestLog>>

AutoloadFile ==
  /\ pc = "autoload"
  /\ IngestGuarded(dataDir[i], "autoload", "warning")
  /\ i' = i + 1
  /\ pc' = IF i = Len(dataDir) THEN "sidebar" ELSE "autoload"
  /\ UNCHANGED <<script, dataDir, startedEmpty, uploads, presses>>
  /\ UNCHANGED viewVars

(***************************************************************************)
(* The sidebar: the button is not pressed (or no file is held), or it is   *)
(* pressed with files.                                                     *)
(***************************************************************************)
SidebarPass ==
  /\ pc = "sidebar"
  /\ pc' = "main"
  /\ UNCHANGED <<script, dataDir, startedEmpty, uploads, i, presses>>
  /\ UNCHANGED ingestVars
  /\ UNCHANGED viewVars

SidebarAdd ==
  /\ pc = "sidebar"
  /\ presses < MaxPresses
  /\ \E files \in UploadLists : uploads' = files
  /\ presses' = presses + 1
  /\ i' = 1
  /\ pc' = "upload"
  /\ UNCHANGED <<script, dataDir, startedEmpty>>
  /\ UNCHANGED ingestVars
  /\ UNCHANGED viewVars

UploadFile ==
  /\ pc = "upload"
  /\ script = "peer_portal.py"
  /\ IngestGuarded(uploads[i], "upload", "error")
  /\ i' = i + 1
  /\ pc' = IF i = Len(uploads) THEN "main" ELSE "upload"
  /\ UNCHANGED <<script, dataDir, startedEmpty, uploads, presses>>
  /\ UNCHANGED viewVars

(***************************************************************************)
(* One iteration of the upload loop of peer-portal.py (lines 19-29): no    *)
(* try/except around the read and no default for a missing Theme column,   *)
(* so either raises and ends the re-evaluation.                            *)
(***************************************************************************)
UploadFileUnguarded ==
  /\ pc = "upload"
  /\ script = "peer-portal.py"
  /\ LET name == uploads[i]
         df   == Recode(Content(name))
     IN  IF Readable(name, ReaderByMime(name)) /\ HasCol(df, "Theme")
         THEN /\ df0' = df
              /\ read0' = Content(name)
              /\ store' = MergeBatch(store, df, script)
              /\ ingestLog' = Append(ingestLog, Logged(name, "upload"))
              /\ UNCHANGED reports
              /\ i' = i + 1
              /\ pc' = IF i = Len(uploads) THEN "main" ELSE "upload"
         ELSE /\ reports' = Append(reports, Report("exception", name))
              /\ df0' = IF Readable(name, ReaderByMime(name)) THEN df ELSE df0
              /\ read0' = IF Readable(name, ReaderByMime(name))
                          THEN Content(name) ELSE read0
              /\ pc' = "idle"
              /\ UNCHANGED <<store, ingestLog, i>>
  /\ UNCHANGED <<script, dataDir, startedEmpty, uploads, presses>>
  /\ UNCHANGED viewVars

(***************************************************************************)
(* The main UI.                                                            *)
(***************************************************************************)
frameVars == <<script, dataDir, startedEmpty, uploads, i, presses>>

\* lines 84-86 / 35-37: nothing to show, st.stop()
MainEmpty ==
  /\ pc = "main"
  /\ DOMAIN store = {}
  /\ pc' = "idle"
  /\ UNCHANGED frameVars
  /\ UNCHANGED ingestVars
  /\ UNCHANGED viewVars

\* sorted(store): text keys and a missing key do not compare
KeysSortable(st) == \A a, b \in DOMAIN st : a.t = b.t

\* the coercion written through to the stored frame
StoreAfterCoerceAliased(st, th, inds) ==
  [st EXCEPT ![th] = CoerceAll(st[th], inds)]

\* what line 136 (data[c] = pd.to_numeric(...)) does to the store: nothing,
\* data being a copy of the selected rows (lines 112-113, .copy())
StoreAfterCoerce(st, th, inds) == st

\* what plot_df["iso"] = ... (peer-portal.py line 112) does to the store:
\* nothing, plot_df being a fresh frame (groupby result, line 84)
StoreAfterIso(st, th, ch) == st

(***************************************************************************)
(* peer_portal.py lines 88-116: theme, optional filters, the filtered      *)
(* table shown and exported.                                               *)
(***************************************************************************)
FilterOptional ==
  /\ pc = "main"
  /\ script = "peer_portal.py"
  /\ DOMAIN store # {}
  /\ \E th \in DOMAIN store :
       LET df == store[th]
       IN  \E rs \in SUBSET Options(df, "Region"),
              is \in SUBSET Options(df, "Income"),
              cs \in SmallSubsets(Options(df, "Country"), MaxPick) :
             /\ theme' = th
             /\ regions' = rs
             /\ incomes' = is
             /\ countries' = cs
             /\ data' = TableAll(df, rs, is, cs)
  /\ pc' = "table"
  /\ UNCHANGED <<sel_inds, stat, group, chart_type, plot_df, k, df_ind>>
  /\ UNCHANGED frameVars
  /\ UNCHANGED ingestVars

\* the column a chart of peer_portal.py groups by
GroupColumn(ch, g) ==
  IF ch = "Map" \/ g = "None" THEN "Country" ELSE g

\* lines 165-178: the per-indicator frame, aggregated first and cleaned of
\* 999 and missing afterwards
IndicatorFrame(df, ch, g, ind, st) ==
  LET base == IF ch \in AggCharts
              THEN GroupAgg(df, GroupColumn(ch, g), <<ind>>, st)
              ELSE df
  IN  DropNA(SetColumn(base, ind,
                       [j \in DOMAIN base.rows |-> ReplaceSentinel(base.rows[j][ind])]),
             ind)

(***************************************************************************)
(* peer_portal.py lines 161-255: the chart loop from its n-th iteration    *)
(* on: the indicator it ends at, the last per-indicator frame and what it  *)
(* reports on the way.                                                     *)
(***************************************************************************)
RECURSIVE ChartLoop(_, _, _, _, _, _)
ChartLoop(df, ch, g, inds, st, n) ==
  LET ind     == inds[n]
      cleaned == IndicatorFrame(df, ch, g, ind, st)
      many    == Len(inds) >= 2
      \* Scatter / Radar with one indicator: st.info and break;
      \* Radar with several: melt() over columns df_ind lacks raises
      ends    == /\ ~IsEmpty(cleaned)
                 /\ \/ ch = "Radar"
                    \/ ch = "Scatter" /\ ~many
      cats    == ch = "Map" /\ ~IsEmpty(cleaned)
                 /\ Cardinality(Options(cleaned, ind)) <= MapCategories
      shown   == IF cats
                 THEN SetColumn(cleaned, "cat",
                        [j \in DOMAIN cleaned.rows |-> AsText(cleaned.rows[j][ind])])
                 ELSE cleaned
      said    == IF IsEmpty(cleaned)
                 THEN <<Report("warning", ind)>>
                 ELSE IF ch = "Radar" /\ many
                 THEN <<Report("exception", ind)>>
                 ELSE <<>>
  IN  IF ends \/ n = Len(inds)
      THEN [k |-> n, df_ind |-> shown, reports |-> said]
      ELSE LET rest == ChartLoop(df, ch, g, inds, st, n + 1)
           IN  [rest EXCEPT !.reports = said \o rest.reports]

(***************************************************************************)
(* peer_portal.py lines 118-255: indicator, statistic, group and chart     *)
(* type; numeric coercion of the selected columns; the plotting frame;     *)
(* the charts.                                                             *)
(***************************************************************************)
Charts ==
  /\ pc = "table"
  /\ script = "peer_portal.py"
  /\ \E inds \in Picks(IndicatorsOf(data), MaxSel), st \in Stats,
        g \in Groups, ch \in ChartTypes :
       \E coerced \in {CoerceAll(data, inds)} :
         \E frame \in {IF ch \in AggCharts
                       THEN GroupAgg(coerced, GroupColumn(ch, g), inds, st)
                       ELSE coerced} :
           LET stops == ch \in AggCharts /\ g = "None" /\ ch # "Map"
           IN  /\ sel_inds' = inds
               /\ stat' = st
               /\ group' = g
               /\ chart_type' = ch
               /\ data' = coerced
               /\ store' = StoreAfterCoerce(store, theme, inds)
               /\ plot_df' = IF stops THEN plot_df ELSE frame
               /\ IF stops \/ IsEmpty(frame) \/ inds = <<>>
                  THEN UNCHANGED <<k, df_ind, reports>>
                  ELSE \E loop \in {ChartLoop(coerced, ch, g, inds, st, 1)} :
                         /\ k' = loop.k
                         /\ df_ind' = loop.df_ind
                         /\ reports' = reports \o loop.reports
  /\ pc' = "idle"
  /\ UNCHANGED <<theme, regions, incomes, countries>>
  /\ UNCHANGED <<df0, read0, ingestLog>>
  /\ UNCHANGED frameVars

(***************************************************************************)
(* peer-portal.py lines 39-78: theme, filters (defaulting to every         *)
(* option), indicators; the filtered table shown and exported.             *)
(***************************************************************************)
FilterRequired ==
  /\ pc = "main"
  /\ script = "peer-portal.py"
  /\ DOMAIN store # {}
  /\ KeysSortable(store)
  /\ \E th \in DOMAIN store :
       LET df == store[th]
       IN  \E rs \in SUBSET Options(df, "Region"),
              is \in SUBSET Options(df, "Income"),
              inds \in Picks(IndicatorsOf(df), MaxSel) :
             \E cs \in SmallSubsets(
                         Options(SelectRows(df, {j \in DOMAIN df.rows :
                                                   IsIn(df.rows[j]["Region"], rs)}),
                                 "Country"), MaxPick) :
               /\ theme' = th
               /\ regions' = rs
               /\ incomes' = is
               /\ countries' = cs
               /\ sel_inds' = inds
               /\ data' = TableSelected(df, rs, is, cs, inds)
  /\ pc' = "table"
  /\ UNCHANGED <<stat, group, chart_type, plot_df, k, df_ind>>
  /\ UNCHANGED frameVars
  /\ UNCHANGED ingestVars

\* line 39: sorted(store) raises on keys of mixed types
ThemeListRaises ==
  /\ pc = "main"
  /\ script = "peer-portal.py"
  /\ ~KeysSortable(store)
  /\ reports' = Append(reports, Report("exception", "sorted"))
  /\ pc' = "idle"
  /\ UNCHANGED <<store, df0, read0, ingestLog>>
  /\ UNCHANGED frameVars
  /\ UNCHANGED viewVars

(***************************************************************************)
(* peer-portal.py lines 81-121: aggregate if the chart needs it, then      *)
(* plot; the map adds the iso helper column.                               *)
(***************************************************************************)
AggregateAndPlot ==
  /\ pc = "table"
  /\ script = "peer-portal.py"
  /\ \E st \in Stats, ch \in ChartTypes :
       LET gf     == IF countries # {} THEN "Country" ELSE "Region"
           raises == ch \in AggCharts /\ AggRaises(data, gf, sel_inds)
       IN  \E frame \in {IF ch \in AggCharts /\ ~raises
                         THEN GroupAgg(data, gf, sel_inds, st)
                         ELSE data} :
             LET mapped == ch = "Map" /\ ~IsEmpty(frame)
             IN  /\ stat' = st
                 /\ chart_type' = ch
                 /\ group' = IF ch \in AggCharts THEN gf ELSE group
                 /\ plot_df' = IF raises THEN plot_df
                               ELSE IF mapped
                               THEN SetColumn(frame, "iso",
                                      [j \in DOMAIN frame.rows |->
                                         Iso3(frame.rows[j][frame.cols[1]])])
                               ELSE frame
                 /\ store' = IF raises THEN store
                             ELSE StoreAfterIso(store, theme, ch)
                 /\ reports' = IF raises
                               THEN Append(reports, Report("exception", "agg"))
                               ELSE reports
  /\ pc' = "idle"
  /\ UNCHANGED <<theme, regions, incomes, countries, sel_inds, data, k, df_ind>>
  /\ UNCHANGED <<df0, read0, ingestLog>>
  /\ UNCHANGED frameVars

Next ==
  \/ Rerun
  \/ AutoloadFile
  \/ SidebarPass
  \/ SidebarAdd
  \/ UploadFile
  \/ UploadFileUnguarded
  \/ MainEmpty
  \/ FilterOptional
  \/ Charts
  \/ FilterRequired
  \/ ThemeListRaises
  \/ AggregateAndPlot

Spec == Init /\ [][Next]_vars

(***************************************************************************)
(* Properties.                                                             *)
(***************************************************************************)
\* every batch as it is merged: recoded, with its Theme column ensured
AsIngested == [name \in FileNames |-> EnsureTheme(Recode(Content(name)), name)]

\* the store keys the Theme cells of a batch give in script sc
KeysOf(sc, batch) == {KeyOf(sc, r["Theme"]) : r \in Range(batch.rows)}

ThemeKeys ==
  UNION {KeysOf(sc, AsIngested[name]) : sc \in Scripts, name \in FileNames}

\* the records of each batch whose Theme is T, in the batch's order
RecordsOf ==
  [sc \in Scripts |-> [name \in FileNames |-> [T \in ThemeKeys |->
     SelectSeq(AsIngested[name].rows,
               LAMBDA r : ~IsNA(r["Theme"]) /\ KeyOf(sc, r["Theme"]) = T)]]]

\* the columns of each batch that holds a Theme cell with key T
ColumnsOf ==
  [sc \in Scripts |-> [name \in FileNames |-> [T \in ThemeKeys |->
     IF T \in KeysOf(sc, AsIngested[name])
     THEN Range(AsIngested[name].cols) ELSE {}]]]

\* C1: ingest appends and never replaces or deduplicates: the dataset of
\* theme T holds, in ingest order, every record of every ingested batch
\* whose Theme is T, over the union of the columns of the batches of T,
\* with missing cells where a record's batch lacked the column.
C1_IngestAppends ==
  \A T \in DOMAIN store :
     LET mine == Flatten([j \in DOMAIN ingestLog |->
                            RecordsOf[script][ingestLog[j].file][T]])
         cols == UNION {ColumnsOf[script][ingestLog[j].file][T] :
                          j \in DOMAIN ingestLog}
     IN  /\ T \in ThemeKeys
         /\ Range(store[T].cols) = cols
         /\ store[T].rows =
              [j \in DOMAIN mine |->
                 [c \in cols |-> IF c \in DOMAIN mine[j] THEN mine[j][c] ELSE NA]]

\* the theme Edu was ingested twice with disjoint indicator columns
C1_Witness ==
  /\ Str("Edu") \in DOMAIN store
  /\ LET d == store[Str("Edu")]
     IN  /\ Len(d.rows) = 5
         /\ HasCol(d, "enrol") /\ HasCol(d, "free")
         /\ \E j \in DOMAIN d.rows : IsNA(d.rows[j]["free"]) /\ ~IsNA(d.rows[j]["enrol"])
         /\ \E j \in DOMAIN d.rows : IsNA(d.rows[j]["enrol"]) /\ ~IsNA(d.rows[j]["free"])

YesNoOnly(df, c) ==
  \A j \in DOMAIN df.rows :
     df.rows[j][c] # NA => df.rows[j][c] \in {Str("Yes"), Str("No")}

\* C2: boolean normalization at ingest: a column of the batch whose
\* non-missing values are all "Yes" or "No" has each "Yes" become 1, each
\* "No" become 0 and each missing value stay missing; a column with any
\* other non-missing value is left untouched.
C2_BooleanNormalization ==
  \A c \in Range(read0.cols) : \A j \in DOMAIN read0.rows :
     LET before == read0.rows[j][c]
         after  == df0.rows[j][c]
     IN  IF YesNoOnly(read0, c)
         THEN /\ before = Str("Yes") => after = Num(1)
              /\ before = Str("No") => after = Num(0)
              /\ before = NA => after = NA
         ELSE after = before

\* a batch with a Yes/No column holding a missing cell has been recoded
C2_Witness ==
  /\ HasCol(read0, "free")
  /\ \E j \in DOMAIN read0.rows :
        read0.rows[j]["free"] = Str("Yes") /\ df0.rows[j]["free"] = Num(1)
  /\ \E j \in DOMAIN read0.rows :
        read0.rows[j]["free"] = NA /\ df0.rows[j]["free"] = NA

AutoloadedFiles ==
  LET es == SelectSeq(ingestLog, LAMBDA e : e.via = "autoload")
  IN  [j \in DOMAIN es |-> es[j].file]

\* C10: autoload runs only in a re-evaluation that starts with an empty
\* store, and no file of data/ is auto-loaded twice in a session.
C10_AutoloadGuard ==
  /\ pc = "autoload" => startedEmpty
  /\ \A a, b \in DOMAIN AutoloadedFiles :
        a # b => AutoloadedFiles[a] # AutoloadedFiles[b]

\* a later re-evaluation of a session with auto-loaded data skipped autoload
C10_Witness ==
  /\ pc = "sidebar"
  /\ ~startedEmpty
  /\ Len(AutoloadedFiles) = 2

\* the filtered table is on display (and, in peer_portal.py, the widgets
\* below it have been read)
TableShown == pc = "table"
Prepared == pc = "idle" /\ data.cols # <<>>

\* the rows of the selected dataset, cut to the table's columns
Cut(rows) == [j \in DOMAIN rows |-> [c \in Range(data.cols) |-> rows[j][c]]]

Selected(facet) ==
  CASE facet = "Region" -> regions
    [] facet = "Income" -> incomes
    [] facet = "Country" -> countries

PolicyA(r) ==
  \A facet \in {"Region", "Income", "Country"} :
     Selected(facet) # {} => r[facet] \in Selected(facet)

PolicyB(r) ==
  /\ r["Region"] \in regions
  /\ r["Income"] \in incomes
  /\ countries # {} => r["Country"] \in countries

\* C3 as claimed: in both scripts a record is in the filtered table iff
\* every facet with a non-empty selection holds the record's value; an
\* empty selection constrains nothing.
C3_PolicyAEverywhere ==
  TableShown => data.rows = Cut(SelectSeq(store[theme].rows, PolicyA))

\* C3 as amended: peer_portal.py filters by policy A; in peer-portal.py
\* Region and Income always constrain (an empty selection of either lets
\* no record pass) and only an empty Country selection constrains nothing.
C3_FilterPolicies ==
  TableShown =>
    IF script = "peer_portal.py"
    THEN data.rows = Cut(SelectSeq(store[theme].rows, PolicyA))
    ELSE data.rows = Cut(SelectSeq(store[theme].rows, PolicyB))

\* peer_portal.py filtered by Region alone and kept some, not all, records
C3_Witness ==
  /\ TableShown
  /\ script = "peer_portal.py"
  /\ regions # {} /\ incomes = {} /\ countries = {}
  /\ data.rows # <<>>
  /\ Len(data.rows) < Len(store[theme].rows)

\* the loop over the uploads of this re-evaluation is over
UploadOver == uploads # <<>> /\ pc # "upload"

UploadedNow ==
  LET es == SelectSeq(ingestLog, LAMBDA e : e.via = "upload")
  IN  [j \in DOMAIN es |-> es[j].file]

\* C4 as claimed: when a batch of the uploaded sequence cannot be parsed,
\* it is skipped with a reported error and contributes nothing, and every
\* other batch of the sequence, before and after it, is still ingested.
C4_PartialFailureNonFatal ==
  (UploadOver /\ \E j \in DOMAIN uploads : ~WellFormed(uploads[j])) =>
     /\ \A j \in DOMAIN uploads :
           WellFormed(uploads[j]) <=> Contains(UploadedNow, uploads[j])
     /\ \A j \in DOMAIN uploads :
           ~WellFormed(uploads[j]) =>
              \E x \in DOMAIN reports :
                 reports[x].file = uploads[j]
                 /\ reports[x].kind \in {"warning", "error"}

\* the aggregated table of the current chart, when one was built
Aggregated ==
  /\ Prepared
  /\ chart_type \in AggCharts
  /\ plot_df.cols # <<>>

\* the numeric cells of column c in the rows of data whose g is key
CellsOf(g, key, c) ==
  LET rs == SelectSeq(data.rows, LAMBDA r : r[g] = key /\ IsNum(r[c]))
  IN  [j \in DOMAIN rs |-> rs[j][c]]

RECURSIVE Total(_)
Total(vs) == IF vs = <<>> THEN 0 ELSE vs[1].n + Total(Tail(vs))

\* x is the k-th smallest of vs
IsKth(x, vs, kth) ==
  /\ Cardinality({j \in DOMAIN vs : vs[j].n < x.n}) < kth
  /\ Cardinality({j \in DOMAIN vs : vs[j].n <= x.n}) >= kth

\* m is the arithmetic mean of the integers vs
IsMean(m, vs) == IsNum(m) /\ m.n * Len(vs) = Total(vs) * m.d

\* m is the median of the integers vs
IsMedian(m, vs) ==
  /\ IsNum(m)
  /\ IF Len(vs) % 2 = 1
     THEN m \in Range(vs) /\ IsKth(m, vs, (Len(vs) + 1) \div 2)
     ELSE \E a, b \in Range(vs) :
             /\ IsKth(a, vs, Len(vs) \div 2)
             /\ IsKth(b, vs, Len(vs) \div 2 + 1)
             /\ m.n * 2 = (a.n + b.n) * m.d

IsStat(m, vs) ==
  IF vs = <<>> THEN m = NA
  ELSE IF stat = "Mean" THEN IsMean(m, vs) ELSE IsMedian(m, vs)

GroupKeyColumn == plot_df.cols[1]

\* C6: every group of the filtered table has one row in the aggregated
\* table, whose cell for every selected indicator is the arithmetic mean,
\* or the median (average of the two middle values for an even count), of
\* the group's non-missing numeric values; missing, not zero, for none.
C6_AggregateCells ==
  Aggregated =>
    LET g == GroupKeyColumn
    IN  /\ \A key \in Options(data, g) :
              Cardinality({j \in DOMAIN plot_df.rows : plot_df.rows[j][g] = key}) = 1
        /\ \A j \in DOMAIN plot_df.rows : \A c \in Range(sel_inds) :
              /\ plot_df.rows[j][g] \in Options(data, g)
              /\ \A x \in DOMAIN data.rows : IsNum(data.rows[x][c]) => data.rows[x][c].d = 1
              /\ IsStat(plot_df.rows[j][c], CellsOf(g, plot_df.rows[j][g], c))

\* a median of an even-count group with different middle values, and a
\* group without values, were aggregated
C6_Witness ==
  /\ Aggregated
  /\ stat = "Median"
  /\ HasCol(plot_df, "enrol")
  /\ \E j \in DOMAIN plot_df.rows :
        /\ plot_df.rows[j]["enrol"] = Num(2)
        /\ Len(CellsOf(GroupKeyColumn, plot_df.rows[j][GroupKeyColumn], "enrol")) = 2
  /\ \E j \in DOMAIN plot_df.rows : \E c \in Range(sel_inds) :
        plot_df.rows[j][c] = NA

\* the cells of a group with the 999 sentinel recoded to missing first
CellsWithoutSentinel(g, key, c) ==
  SelectSeq(CellsOf(g, key, c), LAMBDA v : v.n # Sentinel)

\* C5 as claimed: 999 is recoded to missing before any aggregation
\* consumes the column: every aggregated cell is the statistic of the
\* group's values other than 999.
C5_SentinelBeforeAggregation ==
  Aggregated =>
    \A j \in DOMAIN plot_df.rows : \A c \in Range(sel_inds) :
       IsStat(plot_df.rows[j][c],
              CellsWithoutSentinel(GroupKeyColumn, plot_df.rows[j][GroupKeyColumn], c))

\* C7 as claimed: the filtered table shown and exported has exactly the
\* columns Country, Region, Income and then the selected indicators.
C7_OutputProjection ==
  ((script = "peer-portal.py" /\ TableShown) \/ (script = "peer_portal.py" /\ Prepared))
    => data.cols = <<"Country", "Region", "Income">> \o sel_inds

\* C8 as claimed: every record of the dataset under key T has Theme T, and
\* every record of every batch that was read is held under the key of its
\* own Theme, the source-derived theme when the batch has no Theme column.
C8_ThemePartition ==
  /\ \A T \in DOMAIN store : \A j \in DOMAIN store[T].rows :
        store[T].rows[j]["Theme"] = T
  /\ \A j \in DOMAIN read0.rows :
        \E T \in DOMAIN store : \E x \in DOMAIN store[T].rows :
           /\ \A c \in Range(read0.cols) \ {"Theme"} :
                 /\ c \in DOMAIN store[T].rows[x]
                 /\ store[T].rows[x][c] = df0.rows[j][c]
           /\ HasCol(read0, "Theme") => T = KeyOf(script, read0.rows[j]["Theme"])

====
